---------------------------- MODULE Spec2Model ----------------------------
(***************************************************************************)
(* cam-trigger (src/src/apps/camera_trigger/main.c): a command loop on     *)
(* STDIN that forks one rpicam-vid recorder per accepted "save", a SIGCHLD *)
(* handler that reaps recorders asynchronously, a SIGINT/SIGTERM handler   *)
(* that requests a stop, and the blocking wait at shutdown.                *)
(*                                                                         *)
(* The main thread is a program counter `pc` over the statements of        *)
(* main() and spawn_recorder(); every access to the shared volatile        *)
(* g_children / g_stop is a step of its own, so the handlers interleave    *)
(* with main exactly where a signal can be delivered.  While on_sigchld    *)
(* runs, main is suspended (in_sigchld).                                   *)
(***************************************************************************)
EXTENDS Integers, Sequences, FiniteSets, TLC

\* ------------------------------ bounds ---------------------------------
\* number of lines getline() may return before end-of-input
MaxCmds == 3
\* number of clock ticks (of TickNs nanoseconds) the monotonic clock may advance
MaxTicks == 6

\* --------------------------- program constants -------------------------
MsPerSec == 1000
NsPerMs == 1000000
NsPerSec == MsPerSec * NsPerMs
\* initial value of last_ms_since_start ("allow immediate first trigger")
NeverTriggered == -1000000
\* cfg defaults
DefaultDurationMs == 10000

\* granularity of the modelled clock: half a millisecond
TickNs == NsPerMs \div 2

\* values --min-gap / --duration are given on the command line (atoi of argv)
MinGaps == {0, 2, 1 - NeverTriggered}
Durations == {DefaultDurationMs}
\* instants at which the program may start: <<tv_sec, tv_nsec>>
StartInstants == { <<0, 0>>, <<0, NsPerSec - NsPerMs>> }

\* ----------------------------- C helpers -------------------------------
\* C integer division truncates toward zero
CDiv(a, b) == IF a >= 0 THEN a \div b ELSE -((-a) \div b)

\* the timespec clock_gettime(CLOCK_MONOTONIC) returns `t` ticks after `start`
ClockGettime(start, t) ==
    LET ns == start[2] + t * TickNs
    IN  << start[1] + (ns \div NsPerSec), ns % NsPerSec >>

\* main.c:197-198
MsSinceStart(start, now) ==
    (now[1] - start[1]) * MsPerSec + CDiv(now[2] - start[2], NsPerMs)

IsSpace(c) == c \in {" ", "\t", "\n", "\r"}
IsBlank(c) == c \in {" ", "\t"}
Digits == <<"0", "1", "2", "3", "4", "5", "6", "7", "8", "9">>
IsDigit(c) == \E i \in 1..10 : Digits[i] = c
DigitVal(c) == (CHOOSE i \in 1..10 : Digits[i] = c) - 1

RECURSIVE SkipSpace(_)
\* s with its leading white space removed: main.c:140, and atoi's isspace loop
SkipSpace(s) ==
    IF s # <<>> /\ IsSpace(Head(s)) THEN SkipSpace(Tail(s)) ELSE s

RECURSIVE SkipBlank(_)
\* main.c:190
SkipBlank(s) ==
    IF s # <<>> /\ IsBlank(Head(s)) THEN SkipBlank(Tail(s)) ELSE s

RECURSIVE DropTrailingSpace(_)
DropTrailingSpace(s) ==
    IF s # <<>> /\ IsSpace(s[Len(s)])
    THEN DropTrailingSpace(SubSeq(s, 1, Len(s) - 1))
    ELSE s

\* main.c:138-144
trim(s) == DropTrailingSpace(SkipSpace(s))

\* strncmp(s, lit, Len(lit)) == 0
HasPrefix(s, lit) == Len(s) >= Len(lit) /\ SubSeq(s, 1, Len(lit)) = lit

RECURSIVE AtoiDigits(_, _)
AtoiDigits(s, acc) ==
    IF s # <<>> /\ IsDigit(Head(s))
    THEN AtoiDigits(Tail(s), acc * 10 + DigitVal(Head(s)))
    ELSE acc

\* atoi(3): leading white space, optional sign, decimal digits
atoi(s) ==
    LET t == SkipSpace(s)
    IN  IF t # <<>> /\ Head(t) = "-" THEN -AtoiDigits(Tail(t), 0)
        ELSE IF t # <<>> /\ Head(t) = "+" THEN AtoiDigits(Tail(t), 0)
        ELSE AtoiDigits(t, 0)

\* mutant: the override is taken whenever atoi's result is not negative
SaveDuration_nonneg(c, default) ==
    LET arg == SkipBlank(SubSeq(c, 5, Len(c)))
    IN  IF arg # <<>> /\ atoi(arg) >= 0 THEN atoi(arg) ELSE default

\* main.c:188-194: the duration a save command records for
SaveDuration(c, default) ==
    LET arg == SkipBlank(SubSeq(c, 5, Len(c)))
    IN  IF arg # <<>> /\ atoi(arg) > 0 THEN atoi(arg) ELSE default

Quit == <<"q", "u", "i", "t">>
Exit == <<"e", "x", "i", "t">>
Status == <<"s", "t", "a", "t", "u", "s">>
Save == <<"s", "a", "v", "e">>
Help == <<"h", "e", "l", "p">>
QMark == <<"?">>

IsQuit(c) == HasPrefix(c, Quit) \/ HasPrefix(c, Exit)
IsStatus(c) == ~IsQuit(c) /\ HasPrefix(c, Status)
\* mutant: strncmp(cmd, "save", 1), tested ahead of "status"
IsSave_short(c) == ~IsQuit(c) /\ HasPrefix(c, <<"s">>)
IsSave(c) == ~IsQuit(c) /\ ~IsStatus(c) /\ HasPrefix(c, Save)
IsHelp(c) == ~IsQuit(c) /\ ~IsStatus(c) /\ ~IsSave(c)
             /\ (HasPrefix(c, Help) \/ HasPrefix(c, QMark))
IsUnknown(c) == c # <<>> /\ ~IsQuit(c) /\ ~IsStatus(c) /\ ~IsSave(c) /\ ~IsHelp(c)

\* the lines the operator may type (as getline() returns them)
Lines ==
    { Save \o <<"\n">>,
      <<" ">> \o Save \o <<" ", "7", "\n">>,
      Save \o <<" ", "-", "5", "\n">>,
      Save \o <<" ", "x", "\n">>,
      Save \o <<" ", "7", "x", "\n">>,
      Save \o <<" ", "1", "5", "0", "0", "0", "\n">>,
      Status \o <<"\n">>,
      Quit \o <<"\n">>,
      Exit,
      Help \o <<"\n">>,
      QMark \o <<"\n">>,
      <<"b", "o", "g", "u", "s", "\n">>,
      <<" ", "\n">> }

VARIABLES
    cfg,                 \* app_config_t: min_gap_ms, duration_ms
    prog_start,          \* main.c:175
    clock,               \* ticks of the monotonic clock at its last reading
    g_stop,              \* main.c:44
    g_children,          \* main.c:45
    last_ms_since_start, \* main.c:174
    pc,                  \* position of the main thread
    cmd,                 \* main.c:178, the trimmed line being dispatched
    dur,                 \* main.c:188
    ms_since_start,      \* main.c:197
    reg,                 \* value of g_children loaded by g_children++ / g_children--
    forked,              \* recorder children between fork() and execvp()
    recording,           \* recorder children running rpicam-vid
    zombies,             \* terminated children not yet reaped by waitpid()
    sigchld_pending,     \* SIGCHLD raised and not yet delivered
    in_sigchld,          \* on_sigchld is running (main is suspended)
    ncmds,               \* lines read so far
    status_out,          \* what the last "status" command printed
    \* history variables (observations of the run, not program state)
    decision,            \* outcome of the save being / last processed
    prev_save_ms,        \* ms timestamp of the preceding save command, if any
    passed_ms,           \* ms timestamp of the last save that passed the debounce gate
    accepted_ms,         \* ms timestamp of the last save that passed both gates
    launch_failed,       \* the most recent launch could not start the recorder
    exit_reason,         \* why the command loop ended
    inflight_at_exit,    \* recorders alive when the command loop ended
    late_reads,          \* lines read after g_stop was set
    stop_in_read         \* g_stop was first set while main was about to read

vars == << cfg, prog_start, clock, g_stop, g_children, last_ms_since_start,
           pc, cmd, dur, ms_since_start, reg, forked, recording, zombies,
           sigchld_pending, in_sigchld, ncmds, status_out,
           decision, prev_save_ms, passed_ms, accepted_ms, launch_failed,
           exit_reason, inflight_at_exit, late_reads, stop_in_read >>

shared == << g_stop, g_children >>
config == << cfg, prog_start >>
locals == << cmd, dur, ms_since_start, reg >>
procs == << forked, recording, zombies, sigchld_pending, in_sigchld >>
gate_hist == << decision, prev_save_ms, passed_ms, accepted_ms >>
exit_hist == << exit_reason, inflight_at_exit >>
stop_hist == << late_reads, stop_in_read >>

running == forked + recording

\* main.c:36-45, 164-175
Init ==
    /\ cfg \in [min_gap_ms : MinGaps, duration_ms : Durations]
    /\ prog_start \in StartInstants
    /\ clock = 0
    /\ g_stop = 0
    /\ g_children = 0
    /\ last_ms_since_start = NeverTriggered
    /\ pc = "loop"
    /\ cmd = <<>>
    /\ dur = 0
    /\ ms_since_start = 0
    /\ reg = 0
    /\ forked = 0
    /\ recording = 0
    /\ zombies = 0
    /\ sigchld_pending = FALSE
    /\ in_sigchld = FALSE
    /\ ncmds = 0
    /\ status_out = "none"
    /\ decision = "None"
    /\ prev_save_ms = NeverTriggered
    /\ passed_ms = NeverTriggered
    /\ accepted_ms = NeverTriggered
    /\ launch_failed = FALSE
    /\ exit_reason = "none"
    /\ inflight_at_exit = 0
    /\ late_reads = 0
    /\ stop_in_read = FALSE

\* the main thread executes only while no handler is running
MainAt(l) == pc = l /\ ~in_sigchld

\* leaving the command loop: main.c:177 (false), 183 (break)
LeaveLoop(why) ==
    /\ pc' = "shutdown"
    /\ exit_reason' = why
    /\ inflight_at_exit' = running

\* mutant: the loop condition does not look at g_stop
StopRequested_never(s) == FALSE

\* main.c:177: g_stop as the loop condition reads it
StopRequested(s) == s # 0

\* main.c:177, first conjunct: !g_stop
LoopTest ==
    /\ MainAt("loop")
    /\ IF StopRequested(g_stop)
       THEN LeaveLoop("stop")
       ELSE pc' = "getline" /\ UNCHANGED exit_hist
    /\ UNCHANGED << config, clock, shared, last_ms_since_start, locals, procs,
                    ncmds, status_out, gate_hist, launch_failed, stop_hist >>

\* main.c:177-178: getline() returns a line, which is trimmed
GetLine ==
    /\ MainAt("getline")
    /\ ncmds < MaxCmds
    /\ \E line \in Lines : cmd' = trim(line)
    /\ ncmds' = ncmds + 1
    /\ late_reads' = IF g_stop # 0 THEN late_reads + 1 ELSE late_reads
    /\ pc' = "dispatch"
    /\ dur' = 0
    /\ ms_since_start' = 0
    /\ decision' = "None"
    /\ UNCHANGED << config, clock, shared, last_ms_since_start, reg, procs,
                    status_out, prev_save_ms, passed_ms, accepted_ms,
                    launch_failed, exit_hist, stop_in_read >>

\* main.c:177: getline() returns -1 (end of input, or EINTR from SIGINT)
GetLineEof ==
    /\ MainAt("getline")
    /\ LeaveLoop("eof")
    /\ UNCHANGED << config, clock, shared, last_ms_since_start, locals, procs,
                    ncmds, status_out, gate_hist, launch_failed, stop_hist >>

\* the command is done: `continue`, or falling off the end of the loop body
Continue ==
    /\ pc' = "loop"
    /\ cmd' = <<>>

\* main.c:179
CmdEmpty ==
    /\ MainAt("dispatch")
    /\ cmd = <<>>
    /\ Continue
    /\ UNCHANGED << config, clock, shared, last_ms_since_start, dur,
                    ms_since_start, reg, procs, ncmds, status_out, gate_hist,
                    launch_failed, exit_hist, stop_hist >>

\* main.c:181-183
CmdQuit ==
    /\ MainAt("dispatch")
    /\ IsQuit(cmd)
    /\ LeaveLoop("quit")
    /\ cmd' = <<>>
    /\ UNCHANGED << config, clock, shared, last_ms_since_start, dur,
                    ms_since_start, reg, procs, ncmds, status_out, gate_hist,
                    launch_failed, stop_hist >>

\* mutant: status reports a recording only from the second one on
StatusText_two(n) == IF n > 1 THEN "recording" ELSE "idle"

\* main.c:185: the status string
StatusText(n) == IF n > 0 THEN "recording" ELSE "idle"

\* main.c:184-186
CmdStatus ==
    /\ MainAt("dispatch")
    /\ IsStatus(cmd)
    /\ status_out' = StatusText(g_children)
    /\ Continue
    /\ UNCHANGED << config, clock, shared, last_ms_since_start, dur,
                    ms_since_start, reg, procs, ncmds, gate_hist,
                    launch_failed, exit_hist, stop_hist >>

\* main.c:214-216
CmdHelp ==
    /\ MainAt("dispatch")
    /\ IsHelp(cmd)
    /\ Continue
    /\ UNCHANGED << config, clock, shared, last_ms_since_start, dur,
                    ms_since_start, reg, procs, ncmds, status_out, gate_hist,
                    launch_failed, exit_hist, stop_hist >>

\* main.c:217-220
CmdUnknown ==
    /\ MainAt("dispatch")
    /\ IsUnknown(cmd)
    /\ Continue
    /\ UNCHANGED << config, clock, shared, last_ms_since_start, dur,
                    ms_since_start, reg, procs, ncmds, status_out, gate_hist,
                    launch_failed, exit_hist, stop_hist >>

\* main.c:187-194: parse the optional duration override
CmdSave ==
    /\ MainAt("dispatch")
    /\ IsSave(cmd)
    /\ dur' = SaveDuration(cmd, cfg.duration_ms)
    /\ pc' = "debounce"
    /\ UNCHANGED << config, clock, shared, last_ms_since_start, cmd,
                    ms_since_start, reg, procs, ncmds, status_out, gate_hist,
                    launch_failed, exit_hist, stop_hist >>

\* mutant: the debounce test is not strict
Debounced_inclusive(ms, last, gap) == ms - last <= gap

\* mutant: the debounce window is one millisecond too short
Debounced_short(ms, last, gap) == ms - last < gap - 1

\* main.c:199: the debounce gate
Debounced(ms, last, gap) == ms - last < gap

\* mutant: the concurrency gate lets a second recording through
Busy_two(n) == n > 1

\* main.c:205: the concurrency gate
Busy(n) == n > 0

\* mutant: the trigger time is recorded before the debounce test (line 203
\* moved above line 199), so a debounced save moves it too
Debounce_stamp_first ==
    /\ MainAt("debounce")
    /\ \E t \in clock..MaxTicks :
         LET ms == MsSinceStart(prog_start, ClockGettime(prog_start, t))
         IN  /\ clock' = t
             /\ ms_since_start' = ms
             /\ last_ms_since_start' = ms
             /\ IF Debounced(ms, last_ms_since_start, cfg.min_gap_ms)
                THEN /\ decision' = "Debounced"
                     /\ prev_save_ms' = ms
                     /\ Continue
                ELSE /\ pc' = "gate"
                     /\ UNCHANGED << cmd, decision, prev_save_ms >>
    /\ UNCHANGED << config, shared, dur, reg, procs, ncmds, status_out,
                    passed_ms, accepted_ms, launch_failed, exit_hist,
                    stop_hist >>

\* main.c:196-203: read the monotonic clock, debounce, record the trigger time
Debounce ==
    /\ MainAt("debounce")
    /\ \E t \in clock..MaxTicks :
         LET ms == MsSinceStart(prog_start, ClockGettime(prog_start, t))
         IN  /\ clock' = t
             /\ ms_since_start' = ms
             /\ IF Debounced(ms, last_ms_since_start, cfg.min_gap_ms)
                THEN /\ decision' = "Debounced"
                     /\ prev_save_ms' = ms
                     /\ Continue
                     /\ UNCHANGED last_ms_since_start
                ELSE /\ last_ms_since_start' = ms
                     /\ pc' = "gate"
                     /\ UNCHANGED << cmd, decision, prev_save_ms >>
    /\ UNCHANGED << config, shared, dur, reg, procs, ncmds, status_out,
                    passed_ms, accepted_ms, launch_failed, exit_hist,
                    stop_hist >>

\* main.c:205-208: a recording is already running
GateBusy ==
    /\ MainAt("gate")
    /\ Busy(g_children)
    /\ decision' = "Busy"
    /\ prev_save_ms' = ms_since_start
    /\ passed_ms' = ms_since_start
    /\ Continue
    /\ UNCHANGED << config, clock, shared, last_ms_since_start, dur,
                    ms_since_start, reg, procs, ncmds, status_out,
                    accepted_ms, launch_failed, exit_hist, stop_hist >>

\* main.c:205, 210: both gates passed, spawn_recorder() is called
GateProceed ==
    /\ MainAt("gate")
    /\ ~Busy(g_children)
    /\ decision' = "Proceed"
    /\ prev_save_ms' = ms_since_start
    /\ passed_ms' = ms_since_start
    /\ accepted_ms' = ms_since_start
    /\ pc' = "fork"
    /\ UNCHANGED << config, clock, shared, last_ms_since_start, locals, procs,
                    ncmds, status_out, launch_failed, exit_hist, stop_hist >>

\* main.c:98, 103-110: fork() creates the recorder child
ForkOk ==
    /\ MainAt("fork")
    /\ forked' = forked + 1
    /\ launch_failed' = FALSE
    /\ pc' = "inc_load"
    /\ UNCHANGED << config, clock, shared, last_ms_since_start, locals,
                    recording, zombies, sigchld_pending, in_sigchld, ncmds,
                    status_out, gate_hist, exit_hist, stop_hist >>

\* mutant: a failed fork() rolls back an increment that never happened
ForkFail_rollback ==
    /\ MainAt("fork")
    /\ launch_failed' = TRUE
    /\ g_children' = g_children - 1
    /\ Continue
    /\ UNCHANGED << config, clock, g_stop, last_ms_since_start, dur,
                    ms_since_start, reg, procs, ncmds, status_out, gate_hist,
                    exit_hist, stop_hist >>

\* main.c:98-102, 210-213: fork() fails, spawn_recorder returns -1
ForkFail ==
    /\ MainAt("fork")
    /\ launch_failed' = TRUE
    /\ Continue
    /\ UNCHANGED << config, clock, shared, last_ms_since_start, dur,
                    ms_since_start, reg, procs, ncmds, status_out, gate_hist,
                    exit_hist, stop_hist >>

\* main.c:112: g_children++, the load
IncLoad ==
    /\ MainAt("inc_load")
    /\ reg' = g_children
    /\ pc' = "inc_store"
    /\ UNCHANGED << config, clock, shared, last_ms_since_start, cmd, dur,
                    ms_since_start, procs, ncmds, status_out, gate_hist,
                    launch_failed, exit_hist, stop_hist >>

\* main.c:112-114, 213: g_children++, the store; spawn_recorder returns 0
IncStore ==
    /\ MainAt("inc_store")
    /\ g_children' = reg + 1
    /\ reg' = 0
    /\ Continue
    /\ UNCHANGED << config, clock, g_stop, last_ms_since_start, dur,
                    ms_since_start, procs, ncmds, status_out, gate_hist,
                    launch_failed, exit_hist, stop_hist >>

\* main.c:107: the child's execvp(rpicam-vid) succeeds
ChildExec ==
    /\ forked > 0
    /\ forked' = forked - 1
    /\ recording' = recording + 1
    /\ UNCHANGED << config, clock, shared, last_ms_since_start, pc, locals,
                    zombies, sigchld_pending, in_sigchld, ncmds, status_out,
                    gate_hist, launch_failed, exit_hist, stop_hist >>

\* main.c:107-109: execvp fails, the child calls _exit(127); SIGCHLD is raised
ChildExecFail ==
    /\ forked > 0
    /\ forked' = forked - 1
    /\ zombies' = zombies + 1
    /\ sigchld_pending' = TRUE
    /\ launch_failed' = TRUE
    /\ UNCHANGED << config, clock, shared, last_ms_since_start, pc, locals,
                    recording, in_sigchld, ncmds, status_out, gate_hist,
                    exit_hist, stop_hist >>

\* rpicam-vid terminates (duration elapsed, or killed); SIGCHLD is raised
ChildExit ==
    /\ recording > 0
    /\ recording' = recording - 1
    /\ zombies' = zombies + 1
    /\ sigchld_pending' = TRUE
    /\ UNCHANGED << config, clock, shared, last_ms_since_start, pc, locals,
                    forked, in_sigchld, ncmds, status_out, gate_hist,
                    launch_failed, exit_hist, stop_hist >>

\* mutant: the reaper decrements without the g_children > 0 test
ReapCount_unclamped(n) == n - 1

\* main.c:125: the reaper's clamped decrement
ReapCount(n) == IF n > 0 THEN n - 1 ELSE n

\* main.c:119-121, 166-167: SIGCHLD is delivered, on_sigchld starts
SigchldEnter ==
    /\ sigchld_pending
    /\ ~in_sigchld
    /\ sigchld_pending' = FALSE
    /\ in_sigchld' = TRUE
    /\ UNCHANGED << config, clock, shared, last_ms_since_start, pc, locals,
                    forked, recording, zombies, ncmds, status_out, gate_hist,
                    launch_failed, exit_hist, stop_hist >>

\* main.c:124-126: waitpid(-1, WNOHANG) reaps a child
SigchldReap ==
    /\ in_sigchld
    /\ zombies > 0
    /\ zombies' = zombies - 1
    /\ g_children' = ReapCount(g_children)
    /\ UNCHANGED << config, clock, g_stop, last_ms_since_start, pc, locals,
                    forked, recording, sigchld_pending, in_sigchld, ncmds,
                    status_out, gate_hist, launch_failed, exit_hist,
                    stop_hist >>

\* main.c:124, 127-128: waitpid returns 0 or -1, on_sigchld returns
SigchldReturn ==
    /\ in_sigchld
    /\ zombies = 0
    /\ in_sigchld' = FALSE
    /\ UNCHANGED << config, clock, shared, last_ms_since_start, pc, locals,
                    forked, recording, zombies, sigchld_pending, ncmds,
                    status_out, gate_hist, launch_failed, exit_hist,
                    stop_hist >>

\* main is blocked in the waitpid(-1, &status, 0) of the shutdown loop
BlockedInWaitpid == pc = "waitpid" /\ ~in_sigchld /\ zombies = 0 /\ running > 0

\* main.c:117, 164-165: SIGINT / SIGTERM; installed without SA_RESTART, so a
\* blocked waitpid returns -1 (EINTR)
on_sigint ==
    /\ g_stop' = 1
    /\ pc' = IF BlockedInWaitpid THEN "shutdown" ELSE pc
    /\ stop_in_read' = IF g_stop = 0 THEN pc = "getline" ELSE stop_in_read
    /\ UNCHANGED << config, clock, g_children, last_ms_since_start, locals,
                    procs, ncmds, status_out, gate_hist, launch_failed,
                    exit_hist, late_reads >>

\* mutant: the shutdown loop stops waiting one recording too early
StillWaiting_early(n) == n > 1

\* main.c:226: the shutdown loop's condition
StillWaiting(n) == n > 0

\* main.c:226, 229
ShutdownTest ==
    /\ MainAt("shutdown")
    /\ pc' = IF StillWaiting(g_children) THEN "waitpid" ELSE "done"
    /\ UNCHANGED << config, clock, shared, last_ms_since_start, locals, procs,
                    ncmds, status_out, gate_hist, launch_failed, exit_hist,
                    stop_hist >>

\* main.c:227: the blocking waitpid reaps a child
WaitReap ==
    /\ MainAt("waitpid")
    /\ zombies > 0
    /\ zombies' = zombies - 1
    /\ pc' = "dec_load"
    /\ UNCHANGED << config, clock, shared, last_ms_since_start, locals,
                    forked, recording, sigchld_pending, in_sigchld, ncmds,
                    status_out, gate_hist, launch_failed, exit_hist,
                    stop_hist >>

\* main.c:227: no child exists, waitpid returns -1 (ECHILD)
WaitNoChild ==
    /\ MainAt("waitpid")
    /\ zombies = 0
    /\ running = 0
    /\ pc' = "shutdown"
    /\ UNCHANGED << config, clock, shared, last_ms_since_start, locals, procs,
                    ncmds, status_out, gate_hist, launch_failed, exit_hist,
                    stop_hist >>

\* main.c:227: g_children--, the load
DecLoad ==
    /\ MainAt("dec_load")
    /\ reg' = g_children
    /\ pc' = "dec_store"
    /\ UNCHANGED << config, clock, shared, last_ms_since_start, cmd, dur,
                    ms_since_start, procs, ncmds, status_out, gate_hist,
                    launch_failed, exit_hist, stop_hist >>

\* main.c:227: g_children--, the store
DecStore ==
    /\ MainAt("dec_store")
    /\ g_children' = reg - 1
    /\ reg' = 0
    /\ pc' = "shutdown"
    /\ UNCHANGED << config, clock, g_stop, last_ms_since_start, cmd, dur,
                    ms_since_start, procs, ncmds, status_out, gate_hist,
                    launch_failed, exit_hist, stop_hist >>

\* the steps of main() and spawn_recorder()
MainStep ==
    \/ LoopTest \/ GetLine \/ GetLineEof
    \/ CmdEmpty \/ CmdQuit \/ CmdStatus \/ CmdHelp \/ CmdUnknown \/ CmdSave
    \/ Debounce \/ GateBusy \/ GateProceed
    \/ ForkOk \/ ForkFail \/ IncLoad \/ IncStore
    \/ ShutdownTest \/ WaitReap \/ WaitNoChild \/ DecLoad \/ DecStore

\* the steps of the recorder children
ChildStep == ChildExec \/ ChildExecFail \/ ChildExit

\* the steps of on_sigchld
on_sigchld == SigchldEnter \/ SigchldReap \/ SigchldReturn

Next == MainStep \/ ChildStep \/ on_sigchld \/ on_sigint

Spec == Init /\ [][Next]_vars

\* the main thread runs, signals are delivered, and every recorder that was
\* launched eventually terminates
FairSpec ==
    /\ Spec
    /\ WF_vars(MainStep)
    /\ WF_vars(ChildStep)
    /\ WF_vars(on_sigchld)

TypeOK ==
    /\ g_stop \in {0, 1}
    /\ g_children \in -2..4
    /\ pc \in {"loop", "getline", "dispatch", "debounce", "gate", "fork",
               "inc_load", "inc_store", "shutdown", "waitpid", "dec_load",
               "dec_store", "done"}
    /\ decision \in {"None", "Debounced", "Busy", "Proceed"}
    /\ clock \in 0..MaxTicks
    /\ ncmds \in 0..MaxCmds

\* ------------------------------ properties -----------------------------
\* a save command gets its decision in this step
Decided == decision = "None" /\ decision' # "None"

\* every recorder that was launched has terminated, was reaped, and the
\* SIGCHLD it raised has been handled
AllExitsHandled ==
    running = 0 /\ zombies = 0 /\ ~sigchld_pending /\ ~in_sigchld

\* C1: at most one recording is in flight: at most one launched recorder has
\* not terminated, and g_children is at most 1, in every reachable state
C1_AtMostOneRecording == running <= 1 /\ g_children <= 1

\* C1 witness: a save was turned away while the one recording was running
C1_Witness == decision = "Busy" /\ recording = 1 /\ g_children = 1

\* C2 as claimed: a save that arrives less than min_gap_ms after the preceding
\* save command (whatever that one's outcome) is rejected as Debounced
C2_Original ==
    [][ (Decided /\ prev_save_ms # NeverTriggered
           /\ ms_since_start' - prev_save_ms < cfg.min_gap_ms)
        => decision' = "Debounced" ]_vars

\* C2 amended: a save that arrives less than min_gap_ms (in the program's
\* millisecond timestamps) after the last save that passed the debounce gate
\* is rejected as Debounced, whatever child exits occurred in between
C2_DebouncedWithinGap ==
    [][ (Decided /\ ms_since_start' - passed_ms < cfg.min_gap_ms)
        => decision' = "Debounced" ]_vars

\* C2 witness: a save is debounced although the recording the earlier save
\* launched has already exited and been reaped
C2_Witness ==
    /\ decision = "Debounced"
    /\ accepted_ms # NeverTriggered
    /\ AllExitsHandled
    /\ g_children = 0

\* C3 as claimed: a save decided while g_children > 0 is rejected as Busy
C3_Original ==
    [][ (Decided /\ g_children > 0) => decision' = "Busy" ]_vars

\* C3 amended: a save decided while g_children > 0 is never accepted: it is
\* Debounced when it arrives less than min_gap_ms after the last save that
\* passed the debounce gate, and Busy otherwise
C3_RejectedWhileActive ==
    [][ (Decided /\ g_children > 0)
        => decision' = IF ms_since_start' - passed_ms < cfg.min_gap_ms
                       THEN "Debounced" ELSE "Busy" ]_vars

\* C3 witness: a save was debounced while a recording was active
C3_Witness ==
    /\ decision = "Debounced"
    /\ g_children > 0
    /\ recording = 1
    /\ ms_since_start - passed_ms < cfg.min_gap_ms

\* C4 as claimed: once every launched child has terminated and its exit has
\* been handled, g_children is 0 (one decrement per terminated child)
C4_Claim ==
    (AllExitsHandled /\ pc \notin {"dec_load", "dec_store"}) => g_children = 0

\* C5: g_children never goes below zero
C5_NonNegative == g_children >= 0

\* C5 witness: on_sigchld reaped the recorder while g_children was still 0
\* (spawn_recorder had not counted it yet), and the clamp held it at 0
C5_Witness ==
    /\ pc = "inc_load"
    /\ AllExitsHandled
    /\ g_children = 0

\* C6: when main returns after the command loop, g_children is 0 and no
\* recorder is running or unreaped
C6_ShutdownWaits ==
    pc = "done" => (g_children = 0 /\ running = 0 /\ zombies = 0)

\* C6 witness: quit was issued with one recording in flight, and main returned
C6_Witness ==
    pc = "done" /\ exit_reason = "quit" /\ inflight_at_exit = 1

\* C7 as claimed: once the command loop has ended, and every recorder that
\* was launched exits, the shutdown loop finishes and main returns 0
C7_Claim == (pc = "shutdown") ~> (pc = "done")

\* C8 as claimed: after a launch that failed (fork failed, or the child could
\* not exec and exited) has been reconciled, g_children is back to 0 and the
\* command loop is ready for the next save
C8_Claim ==
    (launch_failed /\ pc = "loop" /\ AllExitsHandled) => g_children = 0

\* C9 as claimed: last_ms_since_start moves only with a save that passed both
\* gates, so outside the gate itself it is that save's timestamp
C9_Original == pc # "gate" => last_ms_since_start = accepted_ms

\* C9 amended: a Debounced save changes nothing; last_ms_since_start is moved
\* by every save that passes the debounce gate, also one that is then
\* rejected as Busy (which changes nothing else); g_children is incremented
\* only for a save that passed both gates
C9_Frame ==
    [][ /\ pc' # "gate" => last_ms_since_start' = passed_ms'
        /\ (Decided /\ decision' # "Proceed")
             => (g_children' = g_children /\ UNCHANGED procs)
        /\ (Decided /\ decision' = "Debounced")
             => last_ms_since_start' = last_ms_since_start
        /\ g_children' > g_children => decision = "Proceed" ]_vars

\* C9 witness: a Busy save has moved last_ms_since_start
C9_Witness ==
    /\ pc = "loop"
    /\ decision = "Busy"
    /\ last_ms_since_start # accepted_ms

\* C10 as claimed: once g_stop is set, no further line is read
C10_Original == [][ g_stop # 0 => ncmds' = ncmds ]_vars

\* C10 amended: once g_stop is set, at most one further line is read and
\* processed, and only if the signal arrived after the loop had tested g_stop
\* and before getline returned; a signal that arrives while a command is being
\* processed makes that command the last one
C10_AtMostOneLateRead ==
    /\ late_reads <= 1
    /\ late_reads = 1 => stop_in_read

\* C10 witness: the loop ended on the stop flag after one late read
C10_Witness ==
    /\ exit_reason = "stop"
    /\ late_reads = 1

\* C11: the status command prints "recording" exactly when g_children > 0 and
\* "idle" exactly when g_children = 0, for the value g_children has when the
\* command is processed
C11_StatusExact ==
    [][ (pc = "dispatch" /\ HasPrefix(cmd, Status) /\ pc' # pc)
        => /\ status_out' = "recording" <=> g_children > 0
           /\ status_out' = "idle" <=> g_children = 0 ]_vars

\* C11 witness: status answered "recording" while the recorder was running
C11_Witness == status_out = "recording" /\ recording = 1 /\ pc = "loop"

\* what follows "save" on the command line, blanks skipped
SaveArg(c) == SkipBlank(SubSeq(c, 5, Len(c)))

AllDigits(a) == a # <<>> /\ \A i \in 1..Len(a) : IsDigit(a[i])

RECURSIVE DecimalValue(_)
\* the number a string of decimal digits denotes
DecimalValue(a) ==
    IF a = <<>> THEN 0
    ELSE 10 * DecimalValue(SubSeq(a, 1, Len(a) - 1)) + DigitVal(a[Len(a)])

\* the longest prefix of a made of decimal digits
DigitPrefix(a) ==
    LET k == CHOOSE n \in 0..Len(a) :
               /\ \A i \in 1..n : IsDigit(a[i])
               /\ (n < Len(a) => ~IsDigit(a[n + 1]))
    IN  SubSeq(a, 1, k)

\* the leading decimal integer of a, with its optional sign
LeadingInt(a) ==
    IF a # <<>> /\ a[1] = "-" THEN - DecimalValue(DigitPrefix(Tail(a)))
    ELSE IF a # <<>> /\ a[1] = "+" THEN DecimalValue(DigitPrefix(Tail(a)))
    ELSE DecimalValue(DigitPrefix(a))

\* C12 as claimed: spawn_recorder is called with the override when the
\* argument is a positive integer, and with cfg.duration_ms when the argument
\* is absent, non-positive or not an integer
C12_Original ==
    pc = "fork" =>
        dur = IF AllDigits(SaveArg(cmd)) /\ DecimalValue(SaveArg(cmd)) > 0
              THEN DecimalValue(SaveArg(cmd))
              ELSE cfg.duration_ms

\* C12 amended: spawn_recorder is called with the leading decimal integer of
\* the argument when that is positive (characters after the digits are
\* ignored), and with cfg.duration_ms otherwise
C12_Duration ==
    pc = "fork" =>
        dur = IF LeadingInt(SaveArg(cmd)) > 0
              THEN LeadingInt(SaveArg(cmd))
              ELSE cfg.duration_ms

\* C12 witness: "save 15000" proceeds with 15000 under the default of 10000
C12_Witness ==
    /\ pc = "fork"
    /\ cfg.duration_ms = DefaultDurationMs
    /\ cmd = Save \o <<" ", "1", "5", "0", "0", "0">>
    /\ dur = 15000

\* the gate function of the specification, evaluated in order
GateDecision(now, last, gap, active) ==
    IF now - last < gap THEN "Debounced"
    ELSE IF active > 0 THEN "Busy"
    ELSE "Proceed"

\* C13: the decision for each save is the gate function of its millisecond
\* timestamp, the timestamp of the last trigger, min_gap_ms and g_children:
\* Debounced iff now - last < min_gap_ms (strictly), else Busy iff
\* g_children > 0, else Proceed
C13_GateFunction ==
    [][ Decided =>
          decision' = GateDecision(ms_since_start', passed_ms,
                                   cfg.min_gap_ms, g_children) ]_vars

\* C13 witness: a save exactly min_gap_ms after the last trigger has passed
\* the debounce gate
C13_Witness ==
    /\ pc = "gate"
    /\ cfg.min_gap_ms > 0
    /\ passed_ms # NeverTriggered
    /\ ms_since_start - passed_ms = cfg.min_gap_ms

\* C14 as claimed: the first save after startup is never Debounced
C14_Claim ==
    [][ (Decided /\ prev_save_ms = NeverTriggered)
        => decision' # "Debounced" ]_vars

\* the positions of main inside the command loop (main.c:177-221)
LoopPcs == {"loop", "getline", "dispatch", "debounce", "gate", "fork",
            "inc_load", "inc_store"}

\* a step of the command loop
CommandLoopStep == pc \in LoopPcs /\ ~in_sigchld /\ pc' # pc

\* C15: on_sigchld changes g_children only, never last_ms_since_start or
\* g_stop (nor any other variable of main), and no step of the command loop
\* decreases g_children
C15_DisjointWriters ==
    [][ /\ on_sigchld
          => UNCHANGED << last_ms_since_start, g_stop, pc, locals, clock,
                          status_out, ncmds >>
        /\ CommandLoopStep => g_children' >= g_children ]_vars

\* C15 witness: the recorder that a save launched and counted has been reaped
\* by on_sigchld, which took g_children back to 0 and left the trigger time
C15_Witness ==
    /\ in_sigchld
    /\ pc = "loop"
    /\ zombies = 0 /\ running = 0
    /\ g_children = 0
    /\ accepted_ms # NeverTriggered
    /\ last_ms_since_start = accepted_ms

\* C16: status, help/?, an unknown command and an empty line change neither
\* g_children nor last_ms_since_start and launch nothing, and the loop goes on
\* to the next line; the loop ends only on quit/exit, end of input or g_stop
C16_NonSaveFrame ==
    [][ /\ (pc = "dispatch" /\ ~HasPrefix(cmd, Save) /\ pc' # pc)
          => /\ UNCHANGED << g_children, last_ms_since_start, forked,
                             recording, zombies, clock >>
             /\ pc' = IF HasPrefix(cmd, Quit) \/ HasPrefix(cmd, Exit)
                      THEN "shutdown" ELSE "loop"
        /\ (pc \in LoopPcs /\ pc' = "shutdown")
          => \/ pc = "dispatch" /\ (HasPrefix(cmd, Quit) \/ HasPrefix(cmd, Exit))
             \/ pc = "getline"
             \/ pc = "loop" /\ g_stop # 0 ]_vars

\* C16 witness: the second line was neither a save nor status, it was processed
\* while a recording was running, and the loop is back at its top
C16_Witness ==
    /\ pc = "loop"
    /\ ncmds = 2
    /\ decision = "None"
    /\ status_out = "none"
    /\ recording = 1
    /\ g_children = 1

\* C17 as claimed: g_children is at least the number of launched recorders
\* not yet reaped, in every reachable state
C17_Original == g_children >= running + zombies

\* C17 amended: outside spawn_recorder's window between fork() and the store
\* of g_children++, g_children is at least the number of launched recorders
\* not yet reaped; so wherever status, the concurrency gate or the shutdown
\* test read g_children = 0, no recorder is left
C17_NoUnderCount ==
    pc \notin {"inc_load", "inc_store"} => g_children >= running + zombies

\* C17 witness: a recorder has terminated and is still counted until reaped
C17_Witness ==
    /\ pc = "gate"
    /\ g_children = 1
    /\ zombies = 1
    /\ running = 0

\* C18: a save that arrives at least min_gap_ms after the last save that
\* passed the debounce gate passes it too, however many debounced saves came
\* in between
C18_WindowNotExtended ==
    [][ (Decided /\ ms_since_start' - passed_ms >= cfg.min_gap_ms)
        => decision' # "Debounced" ]_vars

\* C18 witness: the preceding save was debounced, less than min_gap_ms ago,
\* and this save has passed the debounce gate
C18_Witness ==
    /\ pc = "gate"
    /\ passed_ms # NeverTriggered
    /\ prev_save_ms > passed_ms
    /\ ms_since_start - prev_save_ms < cfg.min_gap_ms

=============================================================================
